---------------------------- MODULE Spec2Model ----------------------------
(***************************************************************************)
(* Model of whisper_bridge.py: the in-process model cache (load_model),    *)
(* the download orchestrator and its progress-monitor thread               *)
(* (download_model / monitor_download_progress), the store operations      *)
(* (check_model_status, list_models, delete_model), transcribe_audio,      *)
(* check_ffmpeg and the command dispatcher main().                         *)
(*                                                                         *)
(* Units.  Sizes are counted in MiB (1024 * 1024 bytes).  Time is counted  *)
(* in ticks of 0.5 s, the monitor's poll interval.  A percentage is kept   *)
(* exactly, as a numerator over the denominator PctDen(expected_size);     *)
(* the percentage carried by an event is in tenths of a point              *)
(* (round(percentage, 1)).  Speeds are in thousandths of a Mbps inside the *)
(* monitor and in hundredths in an event (round(speed_mbps, 2)).           *)
(***************************************************************************)
EXTENDS Integers, Sequences, FiniteSets, TLC

VARIABLES
    store,            \* ~/.cache/whisper: model -> file size, or Absent
    xdg,              \* XDG_CACHE_HOME points the provider's download root elsewhere
    pc,               \* the primary thread: idle, blocking, join, final, returned
    args,             \* the parsed command line of the running invocation
    result,           \* the OperationResult the operation returned
    exit_code,        \* the process exit code decided by main()
    stdout,           \* what main() printed on standard output
    cache,            \* _model_cache, in insertion order
    loads,            \* number of successful whisper.load_model calls (handle ids)
    last_load,        \* the last load_model call: arguments, cache at entry, outcome
    expected,         \* expected_size of the running download
    stop_event,       \* threading.Event shared with the monitor
    mon,              \* the monitor thread: notstarted, loop, body, done
    mst,              \* the monitor's locals
    wake,             \* the tick at which the monitor's sleep ends
    now,              \* ticks since the process started
    deadline,         \* the tick at which join(timeout=1) gives up
    events,           \* the PROGRESS: lines on standard error, in order
    outcome,          \* how the blocking whisper.load_model call ended
    join_timed_out,   \* join returned with the monitor still alive
    events_at_result, \* Len(events) when download_model built its result
    store0,           \* the store when the invocation started
    raised,           \* an external collaborator raised during the operation
    poll_raised,      \* the monitor's last iteration raised (line 188)
    events_at_set     \* Len(events) when stop_event.set() was called

vars == <<store, xdg, pc, args, result, exit_code, stdout, cache, loads,
          last_load, expected, stop_event, mon, mst, wake,
          now, deadline, events, outcome, join_timed_out, events_at_result,
          store0, raised, poll_raised, events_at_set>>

procVars == <<pc, args, result, exit_code, stdout, store0, raised>>
cacheVars == <<cache, loads, last_load>>
dlVars == <<expected, stop_event, mon, mst, wake, now, deadline, events,
            outcome, join_timed_out, events_at_result, poll_raised,
            events_at_set>>

----------------------------------------------------------------------------
(* Bounds of the model *)

MaxTime == 3          \* ticks a process is followed for
MaxFile == 39         \* largest file size the provider writes, MiB
MaxLoads == 4         \* successful loads followed in a load_model sequence
TimeBase == 1000      \* time.time() at process start, in ticks

(* Program constants *)

MaxCached == 2        \* len(_model_cache) >= 2
PollInterval == 1     \* time.sleep(0.5)
JoinTimeout == 2      \* progress_thread.join(timeout=1)
WindowCap == 10       \* len(speed_samples) > 10
StallTicks == 20      \* current_time - last_update_time > 10

Models == {"tiny", "base", "small", "medium", "large", "turbo"}
ModelOrder == <<"tiny", "base", "small", "medium", "large", "turbo">>
Modes == {"transcribe", "download", "check", "list", "delete", "check-ffmpeg"}
Formats == {"json", "text"}

(* The identifiers the modelled invocations pass as --model, those whose    *)
(* download is followed from an empty slot, the chunks the provider writes  *)
(* and the content-lengths the HEAD probe answers (NoLength: no usable      *)
(* answer).                                                                 *)
ArgModels == {"tiny", "base"}
DownloadModels == {"tiny"}
Chunks == {12, 13}
NoLength == -1
ProbeLengths == {NoLength, 0, 24}

Absent == -1
NoResult == [none |-> TRUE]
CacheDir == "~/.cache/whisper"

----------------------------------------------------------------------------
(* Helpers *)

Abs(x) == IF x < 0 THEN 0 - x ELSE x
Min(a, b) == IF a < b THEN a ELSE b

RECURSIVE Sum(_)
Sum(s) == IF s = <<>> THEN 0 ELSE Head(s) + Sum(Tail(s))

(* round(n / d, 0), ties to even, for n >= 0 and d > 0 *)
RoundDiv(n, d) ==
    LET q == n \div d
        r == n % d
    IN  IF 2 * r > d THEN q + 1
        ELSE IF 2 * r = d THEN q + (q % 2)
        ELSE q

ModelFile(m) == <<CacheDir, m>>
Exists(s, m) == s[m] # Absent

----------------------------------------------------------------------------
(* load_model: the cache is a dict, kept here as the sequence of its       *)
(* entries in insertion order; a handle is the number of the load that     *)
(* produced it.                                                            *)

NoHandle == 0

CacheKeys(c) == {c[i].name : i \in 1..Len(c)}
CacheGet(c, m) == (CHOOSE i \in 1..Len(c) : c[i].name = m)

(* a hit that moves the entry to the end, as an LRU cache would *)
CacheHitRefresh(c, m) ==
    LET i == CacheGet(c, m)
    IN  Append(SubSeq(c, 1, i - 1) \o SubSeq(c, i + 1, Len(c)), c[i])

(* _model_cache[model_name] on a hit: a read, the dict is not touched *)
CacheHit(c, m) == c

(* oldest_key = next(iter(_model_cache)); del _model_cache[oldest_key] *)
EvictOldest(c) == Tail(c)

(* if len(_model_cache) >= 2 *)
CacheFull(c) == Len(c) >= MaxCached

(* a load_model that makes room before it calls the loader *)
LoadModelEvictFirst(c, n, m, loader_ok) ==
    IF m \in CacheKeys(c)
    THEN [cache |-> CacheHit(c, m), ret |-> c[CacheGet(c, m)].handle,
          evicted |-> <<>>, loads |-> n]
    ELSE LET full == CacheFull(c)
             kept == IF full THEN EvictOldest(c) ELSE c
             gone == SelectSeq(c, LAMBDA e : e \notin {kept[i] : i \in 1..Len(kept)})
         IN  IF ~loader_ok
             THEN [cache |-> kept, ret |-> NoHandle, evicted |-> gone, loads |-> n]
             ELSE [cache |-> Append(kept, [name |-> m, handle |-> n + 1]),
                   ret |-> n + 1, evicted |-> gone, loads |-> n + 1]

(* lines 79-100; loader_ok = FALSE: whisper.load_model raises *)
LoadModel(c, n, m, loader_ok) ==
    IF m \in CacheKeys(c)
    THEN [cache |-> CacheHit(c, m), ret |-> c[CacheGet(c, m)].handle,
          evicted |-> <<>>, loads |-> n]
    ELSE IF ~loader_ok
    THEN [cache |-> c, ret |-> NoHandle, evicted |-> <<>>, loads |-> n]
    ELSE LET full == CacheFull(c)
             kept == IF full THEN EvictOldest(c) ELSE c
         IN  [cache |-> Append(kept, [name |-> m, handle |-> n + 1]),
              ret |-> n + 1,
              evicted |-> SelectSeq(c, LAMBDA e : e \notin {kept[i] : i \in 1..Len(kept)}),
              loads |-> n + 1]

----------------------------------------------------------------------------
(* get_expected_model_size: the HEAD probe's content-length when it has    *)
(* one, else the table of approximate sizes.                               *)

ApproximateSizes ==
    [m \in Models |->
        CASE m = "tiny" -> 39
          [] m = "base" -> 74
          [] m = "small" -> 244
          [] m = "medium" -> 769
          [] m = "large" -> 1550
          [] m = "turbo" -> 809]

GetExpectedModelSize(m, probe) ==
    IF probe # NoLength THEN probe ELSE ApproximateSizes[m]

----------------------------------------------------------------------------
(* monitor_download_progress: one iteration of the loop body               *)

MonInit(t) ==
    [last_size |-> 0, last_update_time |-> t, speed_samples |-> <<>>,
     last_progress_update |-> 0]

PctDen(exp) == IF exp > 0 THEN exp ELSE 1

(* an unknown expected size reported as 100 % *)
PctNumUnknownIsDone(cur, exp) == IF exp > 0 THEN Min(100 * cur, 100 * exp) ELSE 100

(* min(current_size / expected_size * 100 if expected_size > 0 else 0, 100) *)
PctNum(cur, exp) == IF exp > 0 THEN Min(100 * cur, 100 * exp) ELSE 0

(* round(percentage, 1), in tenths of a point *)
PctTenths(cur, exp) == RoundDiv(10 * PctNum(cur, exp), PctDen(exp))

(* a full window that turns the new sample away *)
PushSampleDropNewest(w, x) == IF Len(w) >= WindowCap THEN w ELSE Append(w, x)

(* speed_samples.append(...); if len(speed_samples) > 10: pop(0) *)
PushSample(w, x) ==
    LET a == Append(w, x)
    IN  IF Len(a) > WindowCap THEN Tail(a) ELSE a

Grew(st, cur, t) ==
    st.last_size > 0 /\ t - st.last_update_time > 0 /\ cur > st.last_size

SpeedSamples(st, cur, t) ==
    IF Grew(st, cur, t)
    THEN PushSample(st.speed_samples,
                    (16000 * (cur - st.last_size)) \div (t - st.last_update_time))
    ELSE st.speed_samples

(* speed_mbps after the speed block, in thousandths *)
SpeedMbps(st, cur, t) ==
    IF Grew(st, cur, t)
    THEN Sum(SpeedSamples(st, cur, t)) \div Len(SpeedSamples(st, cur, t))
    ELSE 0

(* round(speed_mbps, 2) of the mean of the window, in hundredths *)
SpeedRounded(st, cur, t) ==
    RoundDiv(Sum(SpeedSamples(st, cur, t)), 10 * Len(SpeedSamples(st, cur, t)))

(* current_time - last_progress_update > 0.5                               *)
(*     or abs(percentage - last_progress_update) > 1.0                     *)
(* last_progress_update holds the last emitted percentage (line 176); t is *)
(* time.time() in ticks of half a second.                                  *)
ShouldEmit(st, cur, exp, t) ==
    \/ t * PctDen(exp) - 2 * st.last_progress_update > PctDen(exp)
    \/ Abs(PctNum(cur, exp) - st.last_progress_update) > PctDen(exp)

ProgressEvent(m, st, cur, exp, t) ==
    [type |-> "progress", model |-> m, downloaded_bytes |-> cur,
     total_bytes |-> exp, percentage |-> PctTenths(cur, exp),
     speed_mbps |-> IF SpeedMbps(st, cur, t) > 0
                    THEN SpeedRounded(st, cur, t) ELSE 0,
     t |-> t]

(* a monitor without the near-completion test *)
NearDoneNever(cur, exp) == FALSE

(* if current_size >= expected_size * 0.95: break *)
NearDone(cur, exp) == 100 * cur >= 95 * exp

(* if current_size == last_size and current_time - last_update_time > 10:  *)
(*     if current_size > expected_size * 0.9: break                        *)
Stalled(st, cur, exp, t) ==
    /\ cur = st.last_size
    /\ t - st.last_update_time > StallTicks
    /\ 10 * cur > 9 * exp

Breaks(st, cur, exp, t) == NearDone(cur, exp) \/ Stalled(st, cur, exp, t)

(* the locals after an iteration that neither raised nor broke *)
MonAfter(st, cur, exp, t) ==
    [last_size |-> cur, last_update_time |-> t,
     speed_samples |-> SpeedSamples(st, cur, t),
     last_progress_update |->
        IF ShouldEmit(st, cur, exp, t) THEN PctNum(cur, exp)
        ELSE st.last_progress_update]

(* the locals after an iteration that broke out of the loop: lines 185-186 *)
(* are skipped                                                             *)
MonAfterBreak(st, cur, exp, t) ==
    [st EXCEPT !.speed_samples = SpeedSamples(st, cur, t),
               !.last_progress_update =
                  IF ShouldEmit(st, cur, exp, t) THEN PctNum(cur, exp)
                  ELSE st.last_progress_update]

----------------------------------------------------------------------------
(* The store operations.  os.path.getsize is only called on a file that    *)
(* os.path.exists has just found, and nothing else runs between the two on *)
(* the primary thread, so it returns; os.remove may raise (rm_ok = FALSE). *)

Downloaded(m, size) ==
    [model |-> m, downloaded |-> TRUE, path |-> ModelFile(m),
     size_bytes |-> size, size_mb |-> size, success |-> TRUE]

CheckModelStatus(s, m) ==
    IF Exists(s, m)
    THEN Downloaded(m, s[m])
    ELSE [model |-> m, downloaded |-> FALSE, success |-> TRUE]

(* a listing of the downloaded models only *)
ListModelsDownloadedOnly(s) ==
    [models |-> SelectSeq([i \in 1..Len(ModelOrder) |-> CheckModelStatus(s, ModelOrder[i])],
                          LAMBDA r : r.downloaded),
     cache_dir |-> CacheDir, success |-> TRUE]

(* check_model_status over the six identifiers, in the order of `models` *)
ListModels(s) ==
    [models |-> [i \in 1..Len(ModelOrder) |-> CheckModelStatus(s, ModelOrder[i])],
     cache_dir |-> CacheDir, success |-> TRUE]

(* delete_model without its handler: the exception leaves the operation *)
RemoveRaisedPropagates(m) == NoResult

(* the handler of lines 346-352 *)
RemoveRaised(m) ==
    [model |-> m, deleted |-> FALSE, error |-> "OSError", success |-> FALSE]

DeleteModelResult(s, m, rm_ok) ==
    IF Exists(s, m)
    THEN IF rm_ok
         THEN [model |-> m, deleted |-> TRUE, freed_bytes |-> s[m],
               freed_mb |-> s[m], success |-> TRUE]
         ELSE RemoveRaised(m)
    ELSE [model |-> m, deleted |-> FALSE, error |-> "Model not found",
          success |-> FALSE]

(* a removal that empties the whole cache directory *)
DeleteModelStoreAll(s, m, rm_ok) ==
    IF Exists(s, m) /\ rm_ok THEN [x \in Models |-> Absent] ELSE s

(* os.remove(model_file): the store after delete_model *)
DeleteModelStore(s, m, rm_ok) ==
    IF Exists(s, m) /\ rm_ok THEN [s EXCEPT ![m] = Absent] ELSE s

(* transcribe_audio: load is what load_model returned *)
TranscribeAudio(load, tr_ok) ==
    IF load.ret = NoHandle
    THEN [error |-> "Failed to load Whisper model", success |-> FALSE]
    ELSE IF ~tr_ok
    THEN [error |-> "transcribe raised", success |-> FALSE]
    ELSE [text |-> "transcript", language |-> "en", success |-> TRUE]

FfmpegProbes == {"ok", "nonzero", "timeout", "notfound", "error"}

CheckFfmpeg(probe) ==
    CASE probe = "ok" ->
            [available |-> TRUE, path |-> "ffmpeg", version |-> "ffmpeg version",
             success |-> TRUE]
      [] probe = "nonzero" ->
            [available |-> FALSE, error |-> "FFmpeg returned code", success |-> FALSE]
      [] probe = "timeout" ->
            [available |-> FALSE, error |-> "FFmpeg check timed out", success |-> FALSE]
      [] probe = "notfound" ->
            [available |-> FALSE, error |-> "FFmpeg not found in PATH", success |-> FALSE]
      [] OTHER ->
            [available |-> FALSE, error |-> "exception", success |-> FALSE]

(* download_model's results *)
DownloadFailure(m, e) ==
    [model |-> m, downloaded |-> FALSE, error |-> e, success |-> FALSE]

(* t, here and in a progress event: the tick at which the line was        *)
(* written (not a field of the line)                                       *)
CompleteEvent(m, final_size, exp, t) ==
    [type |-> "complete", model |-> m, downloaded_bytes |-> final_size,
     total_bytes |-> exp, percentage |-> 1000, t |-> t]

----------------------------------------------------------------------------
(* The state of a process that has just started *)

NoArgs == [mode |-> "none", model |-> "base", audio |-> "none", format |-> "json"]
NoLoad == [model |-> "none", loader_ok |-> FALSE, before |-> <<>>,
           evicted |-> <<>>, ret |-> NoHandle, prev_hit |-> "none"]
Unresolved == -2

FreshProcess ==
    /\ pc = "idle"
    /\ args = NoArgs
    /\ result = NoResult
    /\ exit_code = 0
    /\ stdout = <<>>
    /\ cache = <<>>
    /\ loads = 0
    /\ last_load = NoLoad
    /\ expected = Unresolved
    /\ stop_event = FALSE
    /\ mon = "notstarted"
    /\ mst = MonInit(TimeBase)
    /\ wake = 0
    /\ now = 0
    /\ deadline = 0
    /\ events = <<>>
    /\ outcome = "none"
    /\ join_timed_out = FALSE
    /\ events_at_result = 0
    /\ raised = FALSE
    /\ poll_raised = FALSE
    /\ events_at_set = 0

(* The store is empty, or holds the base model from an earlier session *)
Init ==
    /\ store \in {[m \in Models |-> Absent],
                  [m \in Models |-> IF m = "base" THEN ApproximateSizes[m] ELSE Absent]}
    /\ xdg \in BOOLEAN
    /\ store0 = store
    /\ FreshProcess

----------------------------------------------------------------------------
(* main(): the modes that run on the primary thread alone                  *)

(* sys.exit(1) on a missing audio argument or file, and on a failed        *)
(* transcription when the output format is text; every other path returns *)
ExitCode(a, res) ==
    IF a.mode = "transcribe"
    THEN IF a.audio # "present" THEN 1
         ELSE IF a.format = "text" /\ ~res.success THEN 1
         ELSE 0
    ELSE 0

(* what main() prints on standard output *)
Printed(a, res) ==
    IF a.mode = "transcribe" /\ a.audio = "present" /\ a.format = "text"
    THEN IF res.success THEN <<[text_line |-> res.text]>> ELSE <<>>
    ELSE <<res>>

Returns(a, res) ==
    /\ pc' = "returned"
    /\ args' = a
    /\ result' = res
    /\ exit_code' = ExitCode(a, res)
    /\ stdout' = Printed(a, res)

MainCheck(m) ==
    /\ pc = "idle"
    /\ Returns([NoArgs EXCEPT !.mode = "check", !.model = m],
               CheckModelStatus(store, m))
    /\ raised' = FALSE
    /\ UNCHANGED <<store, xdg, store0, cacheVars, dlVars>>

MainList ==
    /\ pc = "idle"
    /\ Returns([NoArgs EXCEPT !.mode = "list"], ListModels(store))
    /\ raised' = FALSE
    /\ UNCHANGED <<store, xdg, store0, cacheVars, dlVars>>

MainDelete(m, rm_ok) ==
    /\ pc = "idle"
    /\ Returns([NoArgs EXCEPT !.mode = "delete", !.model = m],
               DeleteModelResult(store, m, rm_ok))
    /\ store' = DeleteModelStore(store, m, rm_ok)
    /\ raised' = (Exists(store, m) /\ ~rm_ok)
    /\ UNCHANGED <<xdg, store0, cacheVars, dlVars>>

MainCheckFfmpeg(probe) ==
    /\ pc = "idle"
    /\ Returns([NoArgs EXCEPT !.mode = "check-ffmpeg"], CheckFfmpeg(probe))
    /\ raised' = (probe \in {"timeout", "notfound", "error"})
    /\ UNCHANGED <<store, xdg, store0, cacheVars, dlVars>>

(* transcribe mode; audio: the positional argument is none, names a        *)
(* missing file, or names a present file                                   *)
MainTranscribe(m, audio, fmt, loader_ok, tr_ok) ==
    /\ pc = "idle"
    /\ LET a == [mode |-> "transcribe", model |-> m, audio |-> audio, format |-> fmt]
           load == LoadModel(cache, loads, m, loader_ok)
       IN  IF audio = "none"
           THEN /\ Returns(a, [error |-> "Audio file required for transcription mode",
                               success |-> FALSE])
                /\ raised' = FALSE
                /\ UNCHANGED cacheVars
           ELSE IF audio = "missing"
           THEN /\ Returns(a, [error |-> "Audio file not found", success |-> FALSE])
                /\ raised' = FALSE
                /\ UNCHANGED cacheVars
           ELSE /\ Returns(a, TranscribeAudio(load, tr_ok))
                /\ raised' = (~loader_ok \/ ~tr_ok)
                /\ cache' = load.cache
                /\ loads' = load.loads
                /\ last_load' = [model |-> m, loader_ok |-> loader_ok, before |-> cache,
                                 evicted |-> load.evicted, ret |-> load.ret,
                                 prev_hit |-> "none"]
    /\ UNCHANGED <<store, xdg, store0, dlVars>>

(* the process ends (a daemon monitor thread ends with it); the next       *)
(* invocation starts from the store it left                                *)
Exit ==
    /\ pc = "returned"
    /\ pc' = "idle"
    /\ args' = NoArgs
    /\ result' = NoResult
    /\ exit_code' = 0
    /\ stdout' = <<>>
    /\ cache' = <<>>
    /\ loads' = 0
    /\ last_load' = NoLoad
    /\ expected' = Unresolved
    /\ stop_event' = FALSE
    /\ mon' = "notstarted"
    /\ mst' = MonInit(TimeBase)
    /\ wake' = 0
    /\ now' = 0
    /\ deadline' = 0
    /\ events' = <<>>
    /\ outcome' = "none"
    /\ join_timed_out' = FALSE
    /\ events_at_result' = 0
    /\ raised' = FALSE
    /\ poll_raised' = FALSE
    /\ events_at_set' = 0
    /\ store0' = store
    /\ UNCHANGED <<store, xdg>>

----------------------------------------------------------------------------
(* download_model, the primary thread                                      *)

DownloadArgs(m) == [NoArgs EXCEPT !.mode = "download", !.model = m]

(* lines 204-213: the file is there, return at once *)
DownloadExisting(m) ==
    /\ pc = "idle"
    /\ Exists(store, m)
    /\ Returns(DownloadArgs(m), Downloaded(m, store[m]))
    /\ raised' = FALSE
    /\ UNCHANGED <<store, xdg, store0, cacheVars, dlVars>>

(* DownloadBegin without the os.path.exists test of line 204 *)
DownloadBeginAlways(m, probe) ==
    /\ pc = "idle"
    /\ pc' = "blocking"
    /\ args' = DownloadArgs(m)
    /\ expected' = GetExpectedModelSize(m, probe)
    /\ mon' = "loop"
    /\ mst' = MonInit(TimeBase + now)
    /\ wake' = now
    /\ outcome' = "pending"
    /\ UNCHANGED <<store, xdg, store0, result, exit_code, stdout, raised, cacheVars,
                   stop_event, now, deadline, events, join_timed_out,
                   events_at_result, poll_raised, events_at_set>>

(* lines 215-227: the file is not there; resolve the expected size, start  *)
(* the monitor thread and enter the blocking whisper.load_model call       *)
DownloadBegin(m, probe) ==
    /\ pc = "idle"
    /\ ~Exists(store, m)
    /\ pc' = "blocking"
    /\ args' = DownloadArgs(m)
    /\ expected' = GetExpectedModelSize(m, probe)
    /\ mon' = "loop"
    /\ mst' = MonInit(TimeBase + now)
    /\ wake' = now
    /\ outcome' = "pending"
    /\ UNCHANGED <<store, xdg, store0, result, exit_code, stdout, raised, cacheVars,
                   stop_event, now, deadline, events, join_timed_out,
                   events_at_result, poll_raised, events_at_set>>

(* the provider appends a chunk to the file it downloads *)
ProviderWrite(c) ==
    /\ pc = "blocking"
    /\ ~xdg
    /\ (IF Exists(store, args.model) THEN store[args.model] ELSE 0) + c <= MaxFile
    /\ store' = [store EXCEPT ![args.model] = (IF @ = Absent THEN 0 ELSE @) + c]
    /\ UNCHANGED <<xdg, procVars, cacheVars, dlVars>>

(* AfterSet without the join of lines 233-234 *)
AfterSetNoJoin(alive) == "final"

(* if progress_thread and progress_thread.is_alive(): join(timeout=1) *)
AfterSet(alive) == IF alive THEN "join" ELSE "final"

(* lines 227-234: the blocking call returns; stop_event.set(); join the    *)
(* monitor if it is alive.  The provider returns once its file is whole,   *)
(* in ~/.cache/whisper or, under XDG_CACHE_HOME, elsewhere.                *)
BlockingReturns ==
    /\ pc = "blocking"
    /\ xdg \/ Exists(store, args.model)
    /\ outcome' = "returned"
    /\ stop_event' = TRUE
    /\ pc' = AfterSet(mon # "done")
    /\ deadline' = now + JoinTimeout
    /\ events_at_set' = Len(events)
    /\ UNCHANGED <<store, xdg, store0, args, result, exit_code, stdout, raised,
                   cacheVars, expected, mon, mst, wake, now, events,
                   join_timed_out, events_at_result, poll_raised>>

(* handlers that would print the complete line as the success path does *)
FailureEventsComplete(m, exp, t) == <<CompleteEvent(m, 0, exp, t)>>

(* what the handlers of lines 260-275 print on standard error: nothing *)
FailureEvents(m, exp, t) == <<>>

(* lines 260-275: the blocking call raises, or KeyboardInterrupt arrives:  *)
(* stop_event.set() and return the failure                                 *)
BlockingFails(how) ==
    /\ pc = "blocking"
    /\ outcome' = how
    /\ stop_event' = TRUE
    /\ events' = events \o FailureEvents(args.model, expected, TimeBase + now)
    /\ Returns(args, DownloadFailure(args.model,
                 IF how = "interrupted" THEN "Download interrupted by user"
                 ELSE "exception"))
    /\ raised' = TRUE
    /\ events_at_result' = Len(events')
    /\ events_at_set' = Len(events)
    /\ UNCHANGED <<store, xdg, store0, cacheVars, expected, mon, mst, wake, now,
                   deadline, join_timed_out, poll_raised>>

(* progress_thread.join(timeout=1) returns: the thread ended, or the       *)
(* timeout passed                                                          *)
JoinMayReturn == mon = "done" \/ now >= deadline

JoinReturns ==
    /\ pc = "join"
    /\ JoinMayReturn
    /\ pc' = "final"
    /\ join_timed_out' = (mon # "done" /\ now >= deadline)
    /\ UNCHANGED <<store, xdg, store0, args, result, exit_code, stdout, raised,
                   cacheVars, expected, stop_event, mon, mst, wake, now, deadline,
                   events, outcome, events_at_result, poll_raised, events_at_set>>

(* lines 236-258: the final size, the complete event, the result *)
DownloadFinal ==
    /\ pc = "final"
    /\ LET m == args.model
           final_size == IF Exists(store, m) THEN store[m] ELSE 0
       IN  /\ events' = Append(events, CompleteEvent(m, final_size, expected,
                                                     TimeBase + now))
           /\ Returns(args, Downloaded(m, final_size))
    /\ raised' = FALSE
    /\ events_at_result' = Len(events')
    /\ UNCHANGED <<store, xdg, store0, cacheVars, expected, stop_event, mon, mst,
                   wake, now, deadline, outcome, join_timed_out, poll_raised,
                   events_at_set>>

----------------------------------------------------------------------------
(* monitor_download_progress, the monitor thread                           *)

(* a loop that does not look at the event *)
LoopTestIgnoresStop(stop) == "body"

(* while not stop_event.is_set() *)
LoopTest(stop) == IF stop THEN "done" ELSE "body"

(* the loop test, once the sleep is over *)
MonCheck ==
    /\ mon = "loop"
    /\ now >= wake
    /\ mon' = LoopTest(stop_event)
    /\ UNCHANGED <<store, xdg, procVars, cacheVars, expected, stop_event, mst, wake,
                   now, deadline, events, outcome, join_timed_out, events_at_result,
                   poll_raised, events_at_set>>

(* an iteration that does not sleep *)
SleepSkipped(n) == n

(* time.sleep(0.5) at tick n ends at tick n + 1 at the earliest *)
SleepUntil(n) == n + PollInterval

(* a handler that lets the exception end the thread *)
ExceptEndsThread == "done"

(* except Exception: pass, then the sleep and the loop test *)
ExceptPass == "loop"

(* lines 139-191: one iteration; fs_ok = FALSE: reading the file that the  *)
(* provider is writing raises and the handler of line 188 passes           *)
MonPoll(fs_ok) ==
    /\ mon = "body"
    /\ LET m == args.model
           cur == IF Exists(store, m) THEN store[m] ELSE 0
           t == TimeBase + now
       IN  IF ~fs_ok
           THEN /\ mon' = ExceptPass
                /\ wake' = SleepUntil(now)
                /\ UNCHANGED <<mst, events>>
           ELSE /\ events' = IF ShouldEmit(mst, cur, expected, t)
                             THEN Append(events, ProgressEvent(m, mst, cur, expected, t))
                             ELSE events
                /\ IF Breaks(mst, cur, expected, t)
                   THEN /\ mon' = "done"
                        /\ mst' = MonAfterBreak(mst, cur, expected, t)
                        /\ wake' = wake
                   ELSE /\ mon' = "loop"
                        /\ mst' = MonAfter(mst, cur, expected, t)
                        /\ wake' = SleepUntil(now)
    /\ poll_raised' = ~fs_ok
    /\ UNCHANGED <<store, xdg, procVars, cacheVars, expected, stop_event, now,
                   deadline, outcome, join_timed_out, events_at_result,
                   events_at_set>>

(* half a second passes while the download or the join is under way *)
Tick ==
    /\ pc \in {"blocking", "join"}
    /\ now < MaxTime
    /\ now' = now + 1
    /\ UNCHANGED <<store, xdg, procVars, cacheVars, expected, stop_event, mon, mst,
                   wake, deadline, events, outcome, join_timed_out, events_at_result,
                   poll_raised, events_at_set>>

----------------------------------------------------------------------------
(* The process: one invocation after another over the same store           *)

Next ==
    \/ \E m \in ArgModels : MainCheck(m)
    \/ MainList
    \/ \E m \in ArgModels, rm_ok \in BOOLEAN : MainDelete(m, rm_ok)
    \/ \E probe \in FfmpegProbes : MainCheckFfmpeg(probe)
    \/ \E m \in ArgModels, audio \in {"none", "missing", "present"},
          fmt \in Formats, loader_ok \in BOOLEAN, tr_ok \in BOOLEAN :
            MainTranscribe(m, audio, fmt, loader_ok, tr_ok)
    \/ \E m \in ArgModels : DownloadExisting(m)
    \/ \E m \in DownloadModels, probe \in ProbeLengths : DownloadBegin(m, probe)
    \/ \E c \in Chunks : ProviderWrite(c)
    \/ BlockingReturns
    \/ \E how \in {"raised", "interrupted"} : BlockingFails(how)
    \/ JoinReturns
    \/ DownloadFinal
    \/ MonCheck
    \/ \E fs_ok \in BOOLEAN : MonPoll(fs_ok)
    \/ Tick
    \/ Exit

Spec == Init /\ [][Next]_vars

----------------------------------------------------------------------------
(* A download followed over many polls: the monitor thread is scheduled as *)
(* soon as its sleep ends, its polls do not raise, and in each half second *)
(* the provider appends c MiB to the file (c = 0: nothing arrives).        *)

(* the size a poll of the running download's file observes *)
Observed == IF Exists(store, args.model) THEN store[args.model] ELSE 0

MonAsleep == mon = "done" \/ (mon = "loop" /\ wake > now)

DownloadTick(c, bound) ==
    /\ pc = "blocking"
    /\ MonAsleep
    /\ now < bound
    /\ now' = now + 1
    /\ store' = IF xdg \/ c = 0 THEN store
                ELSE [store EXCEPT ![args.model] = (IF @ = Absent THEN 0 ELSE @) + c]
    /\ UNCHANGED <<xdg, procVars, cacheVars, expected, stop_event, mon, mst, wake,
                   deadline, events, outcome, join_timed_out, events_at_result,
                   poll_raised, events_at_set>>

(* The file arrives in one piece of 21, 22 or 23 MiB out of an expected 24 *)
(* and then stands still.                                                  *)
MaxStallTime == 23
StallProbes == {24}
StallChunks == {0, 21, 22, 23}

StallTick(c) == Observed + c <= expected /\ DownloadTick(c, MaxStallTime)

StallNext ==
    \/ \E m \in DownloadModels, probe \in StallProbes : DownloadBegin(m, probe)
    \/ \E c \in StallChunks : StallTick(c)
    \/ MonCheck
    \/ MonPoll(TRUE)

SpecStall == Init /\ [][StallNext]_vars

(* The large model arrives at 1 or 2 MiB per half second: every poll after *)
(* the first two finds the file grown.                                     *)
MaxWindowTime == 12
WindowModels == {"large"}
WindowChunks == {1, 2}

WindowTick(c) == DownloadTick(c, MaxWindowTime)

WindowNext ==
    \/ \E m \in WindowModels : DownloadBegin(m, NoLength)
    \/ \E c \in WindowChunks : WindowTick(c)
    \/ MonCheck
    \/ MonPoll(TRUE)

SpecWindow == Init /\ [][WindowNext]_vars

----------------------------------------------------------------------------
(* Downloads under fair scheduling: a monitor thread that can take a step  *)
(* takes it, and time passes while the thread is alive.  Past MaxTime time *)
(* goes on only for the sleep of a monitor whose event has been set.       *)

FairTick ==
    /\ pc # "idle"
    /\ mon \in {"loop", "body"}
    /\ \/ now < MaxTime
       \/ stop_event /\ wake > now /\ now < MaxTime + PollInterval
    /\ now' = now + 1
    /\ UNCHANGED <<store, xdg, procVars, cacheVars, expected, stop_event, mon, mst,
                   wake, deadline, events, outcome, join_timed_out, events_at_result,
                   poll_raised, events_at_set>>

MonStep == \E fs_ok \in BOOLEAN : MonPoll(fs_ok)

FairNext ==
    \/ \E m \in DownloadModels, probe \in ProbeLengths : DownloadBegin(m, probe)
    \/ \E c \in Chunks : ProviderWrite(c)
    \/ BlockingReturns
    \/ \E how \in {"raised", "interrupted"} : BlockingFails(how)
    \/ JoinReturns
    \/ DownloadFinal
    \/ MonCheck
    \/ MonStep
    \/ FairTick
    \/ Exit

SpecFair ==
    /\ Init
    /\ [][FairNext]_vars
    /\ WF_vars(MonCheck)
    /\ WF_vars(MonStep)
    /\ WF_vars(FairTick)

----------------------------------------------------------------------------
(* Sequences of load_model calls in one long-lived process                 *)

LoadModelCall(m, loader_ok) ==
    /\ loads < MaxLoads
    /\ LET load == LoadModel(cache, loads, m, loader_ok)
       IN  /\ cache' = load.cache
           /\ loads' = load.loads
           /\ last_load' = [model |-> m, loader_ok |-> loader_ok, before |-> cache,
                            evicted |-> load.evicted, ret |-> load.ret,
                            prev_hit |-> IF last_load.model \in CacheKeys(last_load.before)
                                         THEN last_load.model ELSE "none"]
    /\ UNCHANGED <<store, xdg, procVars, dlVars>>

CacheNext == \E m \in Models, loader_ok \in BOOLEAN : LoadModelCall(m, loader_ok)

SpecCache == Init /\ [][CacheNext]_vars

----------------------------------------------------------------------------
(* Claims about the model cache, checked under SpecCache                   *)

Entries(c) == {c[i] : i \in 1..Len(c)}
LastWasHit == last_load.model \in CacheKeys(last_load.before)

(* C1: over every sequence of load_model calls (hits, misses, loader       *)
(* failures) the cache never holds more than 2 entries; an insertion that  *)
(* evicts removes exactly the entry inserted earliest among those present; *)
(* a hit leaves the cache, and so its oldest entry, as it was.             *)
C1_CacheBoundedFifo ==
    /\ Len(cache) <= MaxCached
    /\ \A i, j \in 1..Len(cache) : i < j => cache[i].handle < cache[j].handle
    /\ last_load.model # "none" =>
        /\ LastWasHit => cache = last_load.before
        /\ last_load.evicted # <<>> =>
            /\ Len(last_load.evicted) = 1
            /\ last_load.evicted[1] \in Entries(last_load.before)
            /\ \A e \in Entries(last_load.before) :
                    last_load.evicted[1].handle <= e.handle
            /\ Entries(cache) =
                 (Entries(last_load.before) \ {last_load.evicted[1]})
                    \cup {[name |-> last_load.model, handle |-> last_load.ret]}

(* a miss on a full cache evicts the entry that the call before it had    *)
(* just hit: the access did not protect it                                 *)
C1_Witness ==
    /\ last_load.evicted # <<>>
    /\ Len(last_load.before) = MaxCached
    /\ last_load.evicted[1].name = last_load.prev_hit
    /\ Len(cache) = MaxCached

----------------------------------------------------------------------------
(* Claims about an invocation, checked under Spec                          *)

Returned == pc = "returned"
IsMode(md) == args.mode = md

(* a download whose target file was not on disk when it started *)
FullDownload == IsMode("download") /\ ~Exists(store0, args.model)
(* a download whose target file was on disk when it started *)
ShortDownload == IsMode("download") /\ Exists(store0, args.model)

Completes == {i \in 1..Len(events) : events[i].type = "complete"}
Progress == SelectSeq(events, LAMBDA e : e.type = "progress")

C3_CompleteIsLast ==
    \A i \in Completes : i = Len(events) /\ mon = "done"

(* C4: when the blocking call raises or is interrupted, download_model     *)
(* sets the cancellation signal and waits for the monitor to stop before   *)
(* it returns, returns a failure result, and the monitor emits no progress *)
(* event once that result has been built.                                  *)
C4_FailurePathJoins ==
    (Returned /\ FullDownload /\ outcome \in {"raised", "interrupted"}) =>
        /\ stop_event
        /\ mon = "done"
        /\ result.success = FALSE
        /\ Len(events) = events_at_result

(* C5: two progress events emitted one after the other are at least 0.5 s  *)
(* (one tick) apart unless the percentage moved by more than 1.0 point     *)
(* (10 tenths) between them; equivalently a poll less than 0.5 s after the *)
(* last emitted event with a move of at most 1.0 emits nothing.            *)
C5_Throttle ==
    \A i \in 1..(Len(Progress) - 1) :
        \/ Progress[i + 1].t - Progress[i].t >= 1
        \/ Abs(Progress[i + 1].percentage - Progress[i].percentage) > 10

(* two progress events exactly 0.5 s apart between which the percentage    *)
(* moved by no more than 1.0 point                                         *)
C5_Witness ==
    \E i \in 1..(Len(Progress) - 1) :
        /\ Progress[i + 1].t - Progress[i].t = 1
        /\ Abs(Progress[i + 1].percentage - Progress[i].percentage) <= 10

(* C6: the file only grows during a download; the percentage carried by    *)
(* the events is non-decreasing from one event to the next, the complete   *)
(* event included, and every percentage lies in [0, 100].                  *)
C6_MonotoneClamped ==
    /\ \A i \in 1..Len(events) :
          events[i].percentage >= 0 /\ events[i].percentage <= 1000
    /\ \A i \in 1..(Len(events) - 1) :
          events[i].percentage <= events[i + 1].percentage

(* C7: check before any download reports downloaded=false; check right     *)
(* after a download that returned success=true reports downloaded=true     *)
(* with size_bytes > 0; check after a following delete reports             *)
(* downloaded=false.                                                       *)
C7_CheckDownloadDelete ==
    Returned =>
        LET after == CheckModelStatus(store, args.model)
        IN  /\ (IsMode("check") /\ ~Exists(store0, args.model)) =>
                    result.downloaded = FALSE
            /\ (IsMode("download") /\ result.success) =>
                    /\ result.downloaded
                    /\ after.downloaded
                    /\ after.size_bytes > 0
            /\ (IsMode("delete") /\ result.deleted) => after.downloaded = FALSE

(* C8: download of a model whose file is on disk returns success=true with *)
(* that file's size; it resolves no expected size, starts no monitor       *)
(* thread, makes no blocking call, emits no event and leaves the store as  *)
(* it was.                                                                 *)
C8_ExistingFileShortCircuit ==
    (Returned /\ ShortDownload) =>
        /\ result.success /\ result.downloaded
        /\ result.size_bytes = store0[args.model]
        /\ expected = Unresolved
        /\ mon = "notstarted"
        /\ outcome = "none"
        /\ events = <<>>
        /\ store = store0

C8_Witness == Returned /\ ShortDownload /\ result.size_bytes > 0

(* C9: the exit code is non-zero exactly when the mode is transcribe and   *)
(* the result's success flag is false, for both output formats; the other  *)
(* modes exit 0 also on failure.                                           *)
C9_ExitCode ==
    Returned => ((exit_code # 0) <=> (IsMode("transcribe") /\ ~result.success))

(* C10: every operation returns one OperationResult carrying a success     *)
(* flag; when a collaborator raised, the result has success=false and an   *)
(* error message and nothing propagates out of the operation.              *)
IsResult(r) == r # NoResult /\ "success" \in DOMAIN r

C10_AlwaysOneResult ==
    Returned =>
        /\ IsResult(result)
        /\ ~result.success => "error" \in DOMAIN result
        /\ raised => ~result.success
        /\ IsMode("list") =>
              \A i \in 1..Len(result.models) : IsResult(result.models[i])
        /\ (args.format = "json" \/ ~IsMode("transcribe")) => stdout = <<result>>

(* os.remove raised inside delete_model *)
C10_Witness == Returned /\ IsMode("delete") /\ raised /\ ~result.success

----------------------------------------------------------------------------
(* Claims about the store operations and the download, checked under Spec  *)

(* C11: delete on a present model file removes exactly that file, leaves   *)
(* every other model's file as it was and returns freed_bytes equal to the *)
(* size the file had; when os.remove raises, nothing is removed.  delete   *)
(* on an absent file leaves the store as it was and reports deleted=false  *)
(* with the message "Model not found": nothing is raised and the process   *)
(* prints that result and exits 0.                                         *)
C11_DeleteFrame ==
    (Returned /\ IsMode("delete")) =>
        LET m == args.model
        IN  IF Exists(store0, m)
            THEN IF raised
                 THEN store = store0 /\ ~result.deleted
                 ELSE /\ result.deleted /\ result.success
                      /\ result.freed_bytes = store0[m]
                      /\ store[m] = Absent
                      /\ \A x \in Models \ {m} : store[x] = store0[x]
            ELSE /\ store = store0
                 /\ result.deleted = FALSE
                 /\ result.error = "Model not found"
                 /\ ~raised
                 /\ exit_code = 0
                 /\ stdout = <<result>>

(* a file was removed while another model's file was on disk *)
C11_Witness ==
    /\ Returned /\ IsMode("delete")
    /\ result.deleted /\ result.freed_bytes > 0
    /\ \E x \in Models \ {args.model} : Exists(store, x)

(* C12: when the resolved expected size is 0 or negative, the percentage   *)
(* computed for every file size is 0 and every progress event of the       *)
(* download carries percentage 0; the download still returns its result    *)
(* and emits its complete event when the blocking call returns.            *)
C12_ZeroExpectedSize ==
    /\ \A exp \in -2..0, cur \in Chunks \cup {0, MaxFile} :
            PctNum(cur, exp) = 0 /\ PctTenths(cur, exp) = 0
    /\ (expected # Unresolved /\ expected <= 0) =>
        /\ \A i \in 1..Len(Progress) : Progress[i].percentage = 0
        /\ (Returned /\ outcome = "returned") =>
                /\ result.success /\ result.downloaded
                /\ Cardinality(Completes) = 1

(* a download with expected size 0 returned after the monitor had reported *)
(* a file of non-zero size                                                 *)
C12_Witness ==
    /\ expected = 0
    /\ Returned /\ outcome = "returned" /\ result.success
    /\ \E i \in 1..Len(Progress) : Progress[i].downloaded_bytes > 0

(* C13: list returns one entry per identifier of tiny, base, small,        *)
(* medium, large, turbo, in that order, with success=true, each entry      *)
(* telling whether that model's file is on disk, whatever the store holds; *)
(* it leaves the store as it was.                                          *)
C13_ListAllInOrder ==
    (Returned /\ IsMode("list")) =>
        /\ result.success
        /\ Len(result.models) = Len(ModelOrder)
        /\ \A i \in 1..Len(ModelOrder) :
              /\ result.models[i].model = ModelOrder[i]
              /\ result.models[i].downloaded = Exists(store0, ModelOrder[i])
        /\ store = store0

(* a listing of a store that holds some models and lacks others *)
C13_Witness ==
    /\ Returned /\ IsMode("list")
    /\ \E i, j \in 1..Len(result.models) :
          result.models[i].downloaded /\ ~result.models[j].downloaded

----------------------------------------------------------------------------
(* Claims about the monitor's iterations                                   *)

LastProgress == Progress[Len(Progress)]

(* a step of the monitor thread that ends an iteration of the loop body *)
PollStep == mon = "body" /\ mon' \in {"loop", "done"}

(* C14: at a poll that finds the file no larger than at the poll before,   *)
(* the progress event emitted carries the speed of the progress event      *)
(* before it (the smoothed speed is kept, not reset to 0), and the poll    *)
(* leaves the speed sample window as it was.                               *)
C14_KeepsSpeedOnNoGrowth ==
    [][(/\ PollStep
        /\ ~poll_raised'
        /\ Len(Progress) >= 1
        /\ Observed = mst.last_size)
       => /\ mst'.speed_samples = mst.speed_samples
          /\ Len(events') > Len(events) =>
                events'[Len(events')].speed_mbps = LastProgress.speed_mbps]_vars

(* the progress events i and j report the same size more than 10 s apart, *)
(* between 0.9 and 0.95 of the expected size                               *)
StalledSince(i, j) ==
    /\ i < j
    /\ Progress[i].downloaded_bytes = Progress[j].downloaded_bytes
    /\ Progress[j].t - Progress[i].t > StallTicks
    /\ 10 * Progress[j].downloaded_bytes > 9 * expected
    /\ 100 * Progress[j].downloaded_bytes < 95 * expected

(* C15, checked under SpecStall: when the polls, none of which raised,     *)
(* have found the file at the same size for more than 10 s (20 ticks) and  *)
(* that size is above 0.9 and below 0.95 of the expected size, the monitor *)
(* has stopped on its own, at the poll that completed the 10 s.            *)
C15_StallStops ==
    \A i, j \in 1..Len(Progress) :
        StalledSince(i, j) => (~stop_event /\ mon = "done" /\ j = Len(Progress))

(* the progress events written since stop_event.set() *)
ProgressSinceSet ==
    {i \in (events_at_set + 1)..Len(events) : events[i].type = "progress"}

(* C16, checked under SpecFair: once the event is set the monitor thread   *)
(* ends (or the process has ended, and the daemon thread with it),         *)
(* whatever the provider writes and whether or not polls raise; after the  *)
(* set it writes at most one progress event, that of the iteration it was  *)
(* in; a loop test that finds the event set ends the thread, and an ended  *)
(* thread writes nothing.                                                  *)
C16_CancelStopsMonitor ==
    /\ stop_event ~> (mon = "done" \/ pc = "idle")
    /\ [](stop_event => Cardinality(ProgressSinceSet) <= 1)
    /\ [][(mon = "loop" /\ stop_event /\ mon' \in {"body", "done"}) => mon' = "done"]_vars
    /\ [][(mon = "done" /\ pc' # "idle") => (mon' = "done" /\ Progress' = Progress)]_vars

(* the event was set during an iteration: the monitor wrote that           *)
(* iteration's progress event after the set and then ended                 *)
C16_Witness ==
    /\ stop_event /\ mon = "done"
    /\ Cardinality(ProgressSinceSet) = 1
    /\ ~NearDone(LastProgress.downloaded_bytes, expected)

(* the progress events that report a size of at least 0.95 of the expected *)
(* size                                                                    *)
NearDoneEvents ==
    {i \in 1..Len(Progress) :
        100 * Progress[i].downloaded_bytes >= 95 * Progress[i].total_bytes}

(* C17: a poll that observes a size of at least 0.95 of the expected size  *)
(* is the monitor's last: the monitor has stopped, whether or not the      *)
(* event is set, and no progress event follows; the download still emits   *)
(* its one complete event with percentage 100 when the blocking call       *)
(* returns.  A poll stops the monitor only if it observes such a size or   *)
(* the stall of lines 181-183.                                             *)
C17_NearDoneIsLast ==
    /\ [](\A i \in NearDoneEvents : i = Len(Progress) /\ mon = "done")
    /\ []((Returned /\ outcome = "returned" /\ NearDoneEvents # {}) =>
            /\ Cardinality(Completes) = 1
            /\ \A i \in Completes : events[i].percentage = 1000)
    /\ [][(PollStep /\ mon' = "done") =>
            \/ NearDone(Observed, expected)
            \/ Stalled(mst, Observed, expected, TimeBase + now)]_vars

(* the monitor stopped on its own at 0.95 of a known expected size while   *)
(* the blocking call was still under way                                   *)
C17_Witness ==
    /\ pc = "blocking" /\ ~stop_event /\ mon = "done"
    /\ expected > 0
    /\ NearDoneEvents # {}
    /\ LastProgress.downloaded_bytes < expected

(* the speed samples of the growth polls of a sequence p of progress       *)
(* events, recomputed from the sizes and times the events carry            *)
RECURSIVE SamplesOf(_)
SamplesOf(p) ==
    IF Len(p) < 2 THEN <<>>
    ELSE LET a == p[Len(p) - 1]
             b == p[Len(p)]
             before == SamplesOf(SubSeq(p, 1, Len(p) - 1))
         IN  IF a.downloaded_bytes > 0 /\ b.downloaded_bytes > a.downloaded_bytes
                /\ b.t > a.t
             THEN Append(before,
                         (16000 * (b.downloaded_bytes - a.downloaded_bytes))
                            \div (b.t - a.t))
             ELSE before

LastN(s, n) == SubSeq(s, Len(s) - Min(Len(s), n) + 1, Len(s))

(* C18, checked under SpecWindow: after every iteration the window holds   *)
(* at most 10 samples, namely the 10 latest samples pushed (the oldest is  *)
(* the one dropped when an 11th is pushed), and the speed reported by a    *)
(* growth poll is the arithmetic mean of the window as it then stood,      *)
(* rounded to 2 decimals.                                                  *)
C18_WindowOfTen ==
    LET p == Progress
    IN  /\ Len(mst.speed_samples) <= WindowCap
        /\ mst.speed_samples = LastN(SamplesOf(p), WindowCap)
        /\ \A n \in 2..Len(p) :
              LET pushed == SamplesOf(SubSeq(p, 1, n))
                  w == LastN(pushed, WindowCap)
              IN  Len(pushed) > Len(SamplesOf(SubSeq(p, 1, n - 1))) =>
                      p[n].speed_mbps = RoundDiv(Sum(w), 10 * Len(w))

(* more than 10 samples were pushed and the one dropped differs from the   *)
(* oldest one kept                                                         *)
C18_Witness ==
    LET pushed == SamplesOf(Progress)
    IN  /\ Len(pushed) > WindowCap
        /\ Len(mst.speed_samples) = WindowCap
        /\ pushed[1] # mst.speed_samples[1]

(* C19: an iteration of the monitor in which reading the file raised ends  *)
(* with the monitor still in its loop, asleep for one poll interval, its   *)
(* locals (the last observed size among them) as they were and no event    *)
(* written; the step touches neither the primary thread nor its result,    *)
(* nor the store and settings on which the return of the blocking call     *)
(* depends.                                                                *)
C19_PollErrorAbsorbed ==
    [][(PollStep /\ poll_raised') =>
          /\ mon' = "loop"
          /\ wake' = now + PollInterval
          /\ mst' = mst
          /\ events' = events
          /\ UNCHANGED <<pc, result, outcome, exit_code, stdout, raised, store, xdg,
                         stop_event>>]_vars

(* the poll after a poll that found part of the file raised, and the       *)
(* download went on to return success                                      *)
C19_Witness ==
    /\ poll_raised /\ mon = "loop"
    /\ mst.last_size > 0
    /\ Returned /\ outcome = "returned" /\ result.success

----------------------------------------------------------------------------
(* C20, checked under SpecCache: a load_model call whose loader fails      *)
(* returns no handle and leaves the cache as it was, entries and order,    *)
(* also when the cache is full; an entry is evicted only by a miss whose   *)
(* loader succeeded; after such a load of m the cache holds m and the call *)
(* returns the handle cached for m, as does a hit.                         *)
C20_FailedLoadKeepsCache ==
    last_load.model # "none" =>
        LET m == last_load.model
        IN  /\ (~LastWasHit /\ ~last_load.loader_ok) =>
                  /\ cache = last_load.before
                  /\ last_load.evicted = <<>>
                  /\ last_load.ret = NoHandle
            /\ last_load.evicted # <<>> => (~LastWasHit /\ last_load.loader_ok)
            /\ (LastWasHit \/ last_load.loader_ok) =>
                  /\ m \in CacheKeys(cache)
                  /\ last_load.ret # NoHandle
                  /\ last_load.ret = cache[CacheGet(cache, m)].handle

(* the loader failed on a miss while the cache was full *)
C20_Witness ==
    /\ last_load.model # "none"
    /\ ~LastWasHit /\ ~last_load.loader_ok
    /\ Len(last_load.before) = MaxCached
    /\ Len(cache) = MaxCached

============================================================================
